---------------------------- MODULE Spec2Model ----------------------------
(***************************************************************************)
(* Model of spotify_dashboard.py: a Streamlit script that asks for API     *)
(* credentials and a playback-history file, cleans the history             *)
(* (load_history_file), builds four top-10 rankings, looks every ranked    *)
(* artist up in the catalog (search_artist, cached by st.cache_data) and   *)
(* renders the result.  Streamlit runs the script top to bottom on every   *)
(* interaction; the caches outlive the runs.                               *)
(*                                                                         *)
(* Representation.  A DataFrame is a sequence of rows; the row at position *)
(* p carries the RangeIndex label p - 1.  A Python dict is a function on   *)
(* strings.  A string that the program only compares and orders (an artist *)
(* name) is a pair <<n, casing>>: two names are the same string iff the    *)
(* pairs are equal, and they are equal up to case iff the first components *)
(* are equal.  A track name is a number.  An endTime string                *)
(* "2023-01-DD HH:MM" is the record [day |-> DD, minute |-> minute of day].*)
(***************************************************************************)
EXTENDS Integers, Sequences, FiniteSets, TLC

VARIABLES
    client_id, client_secret, file_uploader,   \* the three widgets (lines 95-101)
    catalog, tieOrder,                          \* the catalog server, the sort's order of equal keys
    tokenCache, searchCache,                    \* st.cache_data of lines 7 and 58
    access_token, header, data,                 \* module globals of the script
    top_songs, top_artists, idx, art, generos,
    pc, error, messages, rendered,              \* position, uncaught exception, st.info/st.warning, output
    requests, okRequests, tokenRequests,        \* history: network requests issued per name / for a token
    lastCall, rankings, runs, failures, calls   \* history: last search_artist call, rankings built, counters

vars == << client_id, client_secret, file_uploader, catalog, tieOrder,
           tokenCache, searchCache, access_token, header, data,
           top_songs, top_artists, idx, art, generos,
           pc, error, messages, rendered,
           requests, okRequests, tokenRequests,
           lastCall, rankings, runs, failures, calls >>

----------------------------------------------------------------------------
(* Bounds of the model *)

MaxRecords == 3      \* records of a history drawn freely (SpecLoad)
MaxMs == 3           \* msPlayed of such a record is in 0..MaxMs
MaxArtists == 12     \* artists of a generated history (Spec)
MaxItems == 3        \* items of a search response drawn freely (SpecSearch)
MaxFailures == 1     \* failed search requests in a session
MaxRuns == 2         \* runs of the script in a session

(* Program constants *)

MsPerMin == 60000    \* rep_data.msPlayed//60000
TopN == 10           \* tail(10), head(10)
TopGenres == 5       \* most_common(5)

None == "None"       \* Python's None where the other values are strings
EmptyDict == [k \in {} |-> 0]   \* {}

Min(a, b) == IF a < b THEN a ELSE b
Max(a, b) == IF a > b THEN a ELSE b

----------------------------------------------------------------------------
(* Strings *)

Casings == {"Aa", "aa"}

\* the order of Python's str comparison: by text, an upper case letter first
NameLess(a, b) ==
    \/ a[1] < b[1]
    \/ a[1] = b[1] /\ a[2] = "Aa" /\ b[2] = "aa"

\* variant of NameEq: equality up to case
NameEqFold(a, b) == a[1] = b[1]

\* art['name'] == artist_name, line 80: equality of strings, nothing folded
NameEq(a, b) == a = b

----------------------------------------------------------------------------
(* DataFrame helpers *)

Key(r) == << r.endTime, r.artistName, r.trackName >>

\* DataFrame.duplicated(subset=['endTime','artistName','trackName'], keep=False):
\* the positions of the rows whose key some other row has too
Duplicated(df) ==
    { i \in DOMAIN df : \E j \in DOMAIN df : j # i /\ Key(df[j]) = Key(df[i]) }

\* variant of IdxMin: min() in place of idxmin(), each group's least msPlayed itself
IdxMinValue(df, D) ==
    { df[i].msPlayed : i \in { i \in D :
          \A j \in D : Key(df[j]) = Key(df[i]) => df[i].msPlayed <= df[j].msPlayed } }

\* groupby(['artistName','trackName','endTime']).idxmin() of the rows at positions D:
\* for each group, the index label of the first row holding the group's least msPlayed
IdxMin(df, D) ==
    { i - 1 : i \in { i \in D :
          \A j \in D : Key(df[j]) = Key(df[i]) =>
              \/ df[i].msPlayed < df[j].msPlayed
              \/ df[i].msPlayed = df[j].msPlayed /\ i <= j } }

\* rep_data[~rep_data.msPlayed.isin(min_duracion.msPlayed)]: the positions kept
Kept(df, labels) == { i \in DOMAIN df : df[i].msPlayed \notin labels }

\* boolean-mask selection followed by reset_index(drop=True)
RECURSIVE Select(_, _, _)
Select(df, keep, i) ==
    IF i > Len(df) THEN << >>
    ELSE IF i \in keep THEN << df[i] >> \o Select(df, keep, i + 1)
    ELSE Select(df, keep, i + 1)

\* pd.to_datetime(endTime, format='ISO8601'): minutes since the month began
ToDatetime(e) == (e.day - 1) * (24 * 60) + e.minute

\* lines 40-56
load_history_file(file) ==
    LET rep_data == file
        min_duracion == IdxMin(rep_data, Duplicated(rep_data))
        cleaned == Select(rep_data, Kept(rep_data, min_duracion), 1)
    IN  [ i \in DOMAIN cleaned |->
            [ endTime    |-> cleaned[i].endTime,
              artistName |-> cleaned[i].artistName,
              trackName  |-> cleaned[i].trackName,
              msPlayed   |-> cleaned[i].msPlayed,
              playDate   |-> ToDatetime(cleaned[i].endTime),
              minPlayed  |-> cleaned[i].msPlayed \div MsPerMin ] ]

----------------------------------------------------------------------------
(* Aggregation: groupby, sort_values, head, tail *)

\* the keys of a groupby, which sorts them
SortedNames(S) ==
    [ k \in 1..Cardinality(S) |->
        CHOOSE a \in S : Cardinality({ b \in S : NameLess(b, a) }) = k - 1 ]

PairLess(p, q) == NameLess(p[1], q[1]) \/ (p[1] = q[1] /\ p[2] < q[2])

SortedPairs(S) ==
    [ k \in 1..Cardinality(S) |->
        CHOOSE p \in S : Cardinality({ q \in S : PairLess(q, p) }) = k - 1 ]

RECURSIVE SumMs(_, _, _)
SumMs(df, a, i) ==
    IF i > Len(df) THEN 0
    ELSE (IF df[i].artistName = a THEN df[i].msPlayed ELSE 0) + SumMs(df, a, i + 1)

\* groupby(['artistName']).count(): every column holds the group's row count
CountByArtist(df) ==
    LET keys == SortedNames({ df[i].artistName : i \in DOMAIN df })
        n(a) == Cardinality({ i \in DOMAIN df : df[i].artistName = a })
    IN  [ k \in DOMAIN keys |->
            [ artistName |-> keys[k], msPlayed |-> n(keys[k]), trackName |-> n(keys[k]) ] ]

\* groupby(['artistName']).sum(): msPlayed holds the group's total
SumByArtist(df) ==
    LET keys == SortedNames({ df[i].artistName : i \in DOMAIN df })
    IN  [ k \in DOMAIN keys |->
            [ artistName |-> keys[k], msPlayed |-> SumMs(df, keys[k], 1) ] ]

\* groupby(['artistName','trackName']).count()
CountBySong(df) ==
    LET keys == SortedPairs({ << df[i].artistName, df[i].trackName >> : i \in DOMAIN df })
        n(p) == Cardinality({ i \in DOMAIN df :
                    << df[i].artistName, df[i].trackName >> = p })
    IN  [ k \in DOMAIN keys |->
            [ artistName |-> keys[k][1], trackName |-> keys[k][2], msPlayed |-> n(keys[k]) ] ]

\* drop_duplicates(subset=['trackName','artistName']): the first row of each pair stays
DropDuplicateSongs(df) ==
    Select(df,
           { i \in DOMAIN df : \A j \in 1..(i - 1) :
                << df[j].artistName, df[j].trackName >> #
                << df[i].artistName, df[i].trackName >> },
           1)

\* sort_values('msPlayed', ascending=...), default kind 'quicksort', which is not
\* stable: rows with equal msPlayed come out in an order the numpy build decides.
\* tie = "stable" keeps their order, tie = "reversed" reverses it.
SortValues(rows, ascending, tie) ==
    LET n == Len(rows)
        Before(i, j) ==
            IF rows[i].msPlayed # rows[j].msPlayed
            THEN IF ascending THEN rows[i].msPlayed < rows[j].msPlayed
                              ELSE rows[i].msPlayed > rows[j].msPlayed
            ELSE IF tie = "stable" THEN i < j ELSE i > j
        Rank(i) == Cardinality({ j \in 1..n : Before(j, i) }) + 1
    IN  [ k \in 1..n |-> rows[CHOOSE i \in 1..n : Rank(i) = k] ]

\* variant of HeadRows: no head(k) at all
HeadAll(rows, k) == rows

\* head(k)
HeadRows(rows, k) == SubSeq(rows, 1, Min(k, Len(rows)))

\* tail(k)
TailRows(rows, k) == SubSeq(rows, Max(1, Len(rows) - k + 1), Len(rows))

\* line 123-124
TopSongs(df, tie) ==
    LET t == TailRows(SortValues(CountBySong(df), TRUE, tie), TopN)
    IN  [ k \in DOMAIN t |->
            [ artistName |-> t[k].artistName, trackName |-> t[k].trackName,
              msPlayed |-> t[k].msPlayed,
              nombre_completo |-> << t[k].trackName, " - ", t[k].artistName >> ] ]

\* line 130
TopArtistsByCount(df, tie) == HeadRows(SortValues(CountByArtist(df), FALSE, tie), TopN)
\* line 149
TopArtistsByDuration(df, tie) == HeadRows(SortValues(SumByArtist(df), FALSE, tie), TopN)
\* lines 167-168
TopArtistsByDistinct(df, tie) ==
    HeadRows(SortValues(CountByArtist(DropDuplicateSongs(df)), FALSE, tie), TopN)

\* Counter(generos).most_common(5): by count, equal counts in order of first insertion
MostCommon(gs, k) ==
    LET firsts == Select(gs, { i \in DOMAIN gs : \A j \in 1..(i - 1) : gs[j] # gs[i] }, 1)
        counted == [ i \in DOMAIN firsts |->
                       [ genre |-> firsts[i],
                         msPlayed |-> Cardinality({ j \in DOMAIN gs : gs[j] = firsts[i] }) ] ]
    IN  HeadRows(SortValues(counted, FALSE, "stable"), k)

----------------------------------------------------------------------------
(* search_artist and its cache *)

\* for art in items: if art['name'] == artist_name: return art / else: return {}
FirstMatch(items, artist_name) ==
    LET hits == { k \in DOMAIN items : NameEq(items[k].name, artist_name) }
    IN  IF hits = {} THEN EmptyDict
        ELSE items[CHOOSE k \in hits : \A j \in hits : k <= j]

\* variant of search_artist: a failed request yields {} and raises nothing
search_artist_quiet(artist_name, response) ==
    IF response.status = "ok"
    THEN [ raised |-> "none", value |-> FirstMatch(response.items, artist_name) ]
    ELSE [ raised |-> "none", value |-> EmptyDict ]

\* lines 70-83.  response.status: "ok" (a body with artists.items),
\* "error_body" (a body without 'artists', as sent with 401), "network_error"
\* (requests.get raises).  Nothing is caught.
search_artist(artist_name, response) ==
    CASE response.status = "network_error" ->
            [ raised |-> "ConnectionError", value |-> EmptyDict ]
      [] response.status = "error_body" ->
            [ raised |-> "KeyError:artists", value |-> EmptyDict ]
      [] OTHER ->
            [ raised |-> "none", value |-> FirstMatch(response.items, artist_name) ]

\* variant of CacheStore: nothing is kept
CacheSkip(cache, name, value) == cache

\* st.cache_data keeps the value a call returned, under the call's arguments
CacheStore(cache, name, value) == (name :> value) @@ cache

Count(f, k) == IF k \in DOMAIN f THEN f[k] ELSE 0
Bump(f, k) == (k :> Count(f, k) + 1) @@ f

\* one call of the decorated search_artist: the cached value, or the function run
\* on the server's response; a call that raises stores nothing
SearchCall(artist_name, response) ==
    IF artist_name \in DOMAIN searchCache
    THEN [ hit |-> TRUE, raised |-> "none", value |-> searchCache[artist_name],
           cache |-> searchCache ]
    ELSE LET r == search_artist(artist_name, response)
         IN  [ hit |-> FALSE, raised |-> r.raised, value |-> r.value,
               cache |-> IF r.raised = "none"
                         THEN CacheStore(searchCache, artist_name, r.value)
                         ELSE searchCache ]

\* what the server may answer to a search for a name: the catalog's items, or,
\* while the session's failures are not used up, a failure
ServerResponses(artist_name) ==
    { [ status |-> "ok", items |-> catalog[artist_name] ] }
    \cup (IF failures < MaxFailures
          THEN { [ status |-> "network_error", items |-> << >> ],
                 [ status |-> "error_body", items |-> << >> ] }
          ELSE {})

----------------------------------------------------------------------------
(* The script, lines 103-213 *)

\* variant of CredentialsOk: if client_id or client_secret:
CredentialsAny == client_id # "" \/ client_secret # ""

\* if client_id and client_secret:
CredentialsOk == client_id # "" /\ client_secret # ""

\* if access_token:
Truthy(token) == token \notin { None, "" }

\* f'{x/d:.0f}': the quotient rounded to the nearest integer, a half to the even one
RoundDiv(x, d) ==
    LET q == x \div d
        r == x % d
    IN  IF 2 * r < d THEN q
        ELSE IF 2 * r > d THEN q + 1
        ELSE IF q % 2 = 0 THEN q ELSE q + 1

RECURSIVE SumMin(_, _)
SumMin(df, i) == IF i > Len(df) THEN 0 ELSE df[i].minPlayed + SumMin(df, i + 1)

\* art["images"][0]["url"] raises neither KeyError nor IndexError
HasImage(a) ==
    /\ "images" \in DOMAIN a
    /\ Len(a.images) > 0
    /\ "url" \in DOMAIN a.images[1]

\* variant of ExtendGeneros: generos = art['genres']
ExtendGenerosAssign(gs, a) == a.genres

\* generos.extend(art['genres'])
ExtendGeneros(gs, a) == gs \o a.genres

\* the text under a ranked artist's name, lines 145, 163, 182
DisplayValue(loop, row) ==
    CASE loop = "loop_count"    -> << row.trackName, "veces reproducido" >>
      [] loop = "loop_duration" -> << RoundDiv(row.msPlayed, MsPerMin), "minutos de escucha" >>
      [] OTHER                  -> << row.msPlayed, "canciones distintas" >>

NoCall == [ name |-> << 0, "Aa" >>, hit |-> FALSE, status |-> "none", raised |-> "none" ]
NoCalls == [ token |-> FALSE, load |-> FALSE, search |-> FALSE ]
NoRankings == [ count |-> << >>, duration |-> << >>, distinct |-> << >> ]

Abort(exc) == pc' = "aborted" /\ error' = exc

\* line 106 and its else branch, line 213
CheckCredentials ==
    /\ pc = "credentials"
    /\ IF CredentialsOk
       THEN pc' = "token" /\ messages' = messages
       ELSE pc' = "done" /\ messages' = Append(messages, << "info", "Introduce tus credenciales" >>)
    /\ UNCHANGED << client_id, client_secret, file_uploader, catalog, tieOrder,
                    tokenCache, searchCache, access_token, header, data,
                    top_songs, top_artists, idx, art, generos, error, rendered,
                    requests, okRequests, tokenRequests, lastCall, rankings,
                    runs, failures, calls >>

\* line 107: get_access_token, cached under its arguments; the server provides a
\* token, an empty one or none, or the request fails
GetAccessToken ==
    /\ pc = "token"
    /\ LET key == << client_id, client_secret >>
       IN  IF key \in DOMAIN tokenCache
           THEN /\ access_token' = tokenCache[key]
                /\ pc' = "check_token"
                /\ UNCHANGED << tokenCache, tokenRequests, failures, calls, error >>
           ELSE /\ tokenRequests' = tokenRequests + 1
                /\ calls' = [calls EXCEPT !.token = TRUE]
                /\ \E answer \in { "tok", "", None } \cup
                                  (IF failures < MaxFailures THEN { "raise" } ELSE {}) :
                      IF answer = "raise"
                      THEN /\ Abort("ConnectionError")
                           /\ failures' = failures + 1
                           /\ UNCHANGED << access_token, tokenCache >>
                      ELSE /\ access_token' = answer
                           /\ tokenCache' = (key :> answer) @@ tokenCache
                           /\ pc' = "check_token"
                           /\ UNCHANGED << failures, error >>
    /\ UNCHANGED << client_id, client_secret, file_uploader, catalog, tieOrder,
                    searchCache, header, data, top_songs, top_artists, idx, art,
                    generos, messages, rendered, requests, okRequests, lastCall,
                    rankings, runs >>

\* lines 108-110 and the else branch, line 211
CheckToken ==
    /\ pc = "check_token"
    /\ IF Truthy(access_token)
       THEN /\ header' = << "Bearer", access_token >>
            /\ pc' = "check_file"
            /\ messages' = messages
       ELSE /\ pc' = "done"
            /\ messages' = Append(messages, << "warning", "Credenciales incorrectas." >>)
            /\ header' = header
    /\ UNCHANGED << client_id, client_secret, file_uploader, catalog, tieOrder,
                    tokenCache, searchCache, access_token, data,
                    top_songs, top_artists, idx, art, generos, error, rendered,
                    requests, okRequests, tokenRequests, lastCall, rankings,
                    runs, failures, calls >>

\* line 111 and the else branch, line 209
CheckFile ==
    /\ pc = "check_file"
    /\ IF file_uploader.uploaded
       THEN pc' = "load" /\ messages' = messages
       ELSE pc' = "done" /\ messages' = Append(messages, << "info", "Sube el fichero de historial." >>)
    /\ UNCHANGED << client_id, client_secret, file_uploader, catalog, tieOrder,
                    tokenCache, searchCache, access_token, header, data,
                    top_songs, top_artists, idx, art, generos, error, rendered,
                    requests, okRequests, tokenRequests, lastCall, rankings,
                    runs, failures, calls >>

\* line 112
LoadFile ==
    /\ pc = "load"
    /\ data' = load_history_file(file_uploader.records)
    /\ calls' = [calls EXCEPT !.load = TRUE]
    /\ pc' = "metrics"
    /\ UNCHANGED << client_id, client_secret, file_uploader, catalog, tieOrder,
                    tokenCache, searchCache, access_token, header,
                    top_songs, top_artists, idx, art, generos, error, messages,
                    rendered, requests, okRequests, tokenRequests, lastCall,
                    rankings, runs, failures >>

\* lines 115-119
ShowMetrics ==
    /\ pc = "metrics"
    /\ LET dates == { data[i].playDate : i \in DOMAIN data }
           first == CHOOSE d \in dates : \A e \in dates : d <= e
           last == CHOOSE d \in dates : \A e \in dates : d >= e
           period == IF dates = {} THEN << >>
                     ELSE << first \div (24 * 60) + 1, last \div (24 * 60) + 1 >>
           songs == Cardinality({ << data[i].trackName, data[i].artistName >> : i \in DOMAIN data })
           artists == Cardinality({ data[i].artistName : i \in DOMAIN data })
           hours == RoundDiv(10 * SumMin(data, 1), 60)
       IN  rendered' = rendered \o
              << << "metric", "Periodo", period >>,
                 << "metric", "Canciones escuchadas", songs >>,
                 << "metric", "Artistas escuchados", artists >>,
                 << "metric", "Horas escuchadas", hours >> >>
    /\ pc' = "top_songs"
    /\ UNCHANGED << client_id, client_secret, file_uploader, catalog, tieOrder,
                    tokenCache, searchCache, access_token, header, data,
                    top_songs, top_artists, idx, art, generos, error, messages,
                    requests, okRequests, tokenRequests, lastCall, rankings,
                    runs, failures, calls >>

\* lines 122-125
ShowTopSongs ==
    /\ pc = "top_songs"
    /\ top_songs' = TopSongs(data, tieOrder)
    /\ rendered' = Append(rendered, << "bar", "Top 10 canciones", Len(top_songs') >>)
    /\ pc' = "rank_count"
    /\ UNCHANGED << client_id, client_secret, file_uploader, catalog, tieOrder,
                    tokenCache, searchCache, access_token, header, data,
                    top_artists, idx, art, generos, error, messages,
                    requests, okRequests, tokenRequests, lastCall, rankings,
                    runs, failures, calls >>

\* the start of a ranking section: top_artists is assigned and its loop begins
StartRanking(rows, kind, loop) ==
    /\ top_artists' = rows
    /\ rankings' = [rankings EXCEPT ![kind] = rows]
    /\ idx' = 0
    /\ pc' = loop
    /\ UNCHANGED << client_id, client_secret, file_uploader, catalog, tieOrder,
                    tokenCache, searchCache, access_token, header, data,
                    top_songs, art, generos, error, messages, rendered,
                    requests, okRequests, tokenRequests, lastCall,
                    runs, failures, calls >>

\* line 130
RankByCount ==
    /\ pc = "rank_count"
    /\ StartRanking(TopArtistsByCount(data, tieOrder), "count", "loop_count")

\* line 149, reached when the loop of lines 133-145 has ended
RankByDuration ==
    /\ pc = "loop_count" /\ idx = Len(top_artists)
    /\ StartRanking(TopArtistsByDuration(data, tieOrder), "duration", "loop_duration")

\* lines 167-168, reached when the loop of lines 151-163 has ended
RankByDistinct ==
    /\ pc = "loop_duration" /\ idx = Len(top_artists)
    /\ StartRanking(TopArtistsByDistinct(data, tieOrder), "distinct", "loop_distinct")

\* the call art = search_artist(row.artistName) and its bookkeeping
SearchEffects(name, response, c) ==
    /\ searchCache' = c.cache
    /\ requests' = IF c.hit THEN requests ELSE Bump(requests, name)
    /\ okRequests' = IF ~c.hit /\ c.raised = "none" THEN Bump(okRequests, name)
                     ELSE okRequests
    /\ failures' = IF ~c.hit /\ response.status # "ok" THEN failures + 1 ELSE failures
    /\ lastCall' = [ name |-> name, hit |-> c.hit,
                     status |-> IF c.hit THEN "cached" ELSE response.status,
                     raised |-> c.raised ]
    /\ calls' = [calls EXCEPT !.search = TRUE]

Answers(name) ==
    IF name \in DOMAIN searchCache
    THEN { [ status |-> "cached", items |-> << >> ] }
    ELSE ServerResponses(name)

\* one iteration of a ranking loop: lines 133-145, 151-163, 170-182
RenderArtist(loop) ==
    /\ pc = loop /\ idx < Len(top_artists)
    /\ LET row == top_artists[idx + 1]
       IN  \E response \in Answers(row.artistName) :
             LET c == SearchCall(row.artistName, response)
                 a == c.value
                 image == IF HasImage(a)
                          THEN << << "image", a.images[1].url >> >>
                          ELSE << >>
             IN  /\ SearchEffects(row.artistName, response, c)
                 /\ IF c.raised # "none"
                    THEN /\ Abort(c.raised)
                         /\ UNCHANGED << art, rendered, idx >>
                    ELSE /\ art' = a
                         /\ IF "name" \in DOMAIN a
                            THEN /\ rendered' = rendered \o image \o
                                      << << "markdown", idx + 1, a.name >>,
                                         << "markdown", DisplayValue(loop, row) >> >>
                                 /\ idx' = idx + 1
                                 /\ UNCHANGED << pc, error >>
                            ELSE /\ rendered' = rendered \o image
                                 /\ Abort("KeyError:name")
                                 /\ idx' = idx
    /\ UNCHANGED << client_id, client_secret, file_uploader, catalog, tieOrder,
                    tokenCache, access_token, header, data, top_songs, top_artists,
                    generos, messages, tokenRequests, rankings, runs >>

RenderByCount == RenderArtist("loop_count")
RenderByDuration == RenderArtist("loop_duration")
RenderByDistinct == RenderArtist("loop_distinct")

\* line 187, reached when the loop of lines 170-182 has ended
StartGenres ==
    /\ pc = "loop_distinct" /\ idx = Len(top_artists)
    /\ generos' = << >>
    /\ idx' = 0
    /\ pc' = "genres"
    /\ UNCHANGED << client_id, client_secret, file_uploader, catalog, tieOrder,
                    tokenCache, searchCache, access_token, header, data,
                    top_songs, top_artists, art, error, messages, rendered,
                    requests, okRequests, tokenRequests, lastCall, rankings,
                    runs, failures, calls >>

\* lines 188-190: one iteration over top_artists as it stands
CollectGenres ==
    /\ pc = "genres" /\ idx < Len(top_artists)
    /\ LET row == top_artists[idx + 1]
       IN  \E response \in Answers(row.artistName) :
             LET c == SearchCall(row.artistName, response)
             IN  /\ SearchEffects(row.artistName, response, c)
                 /\ IF c.raised # "none"
                    THEN /\ Abort(c.raised)
                         /\ UNCHANGED << art, generos, idx >>
                    ELSE /\ art' = c.value
                         /\ IF "genres" \in DOMAIN c.value
                            THEN /\ generos' = ExtendGeneros(generos, c.value)
                                 /\ idx' = idx + 1
                                 /\ UNCHANGED << pc, error >>
                            ELSE /\ Abort("KeyError:genres")
                                 /\ UNCHANGED << generos, idx >>
    /\ UNCHANGED << client_id, client_secret, file_uploader, catalog, tieOrder,
                    tokenCache, access_token, header, data, top_songs, top_artists,
                    messages, rendered, tokenRequests, rankings, runs >>

\* lines 191-192
ShowGenres ==
    /\ pc = "genres" /\ idx = Len(top_artists)
    /\ LET common == MostCommon(generos, TopGenres)
       IN  rendered' = rendered \o
              [ k \in DOMAIN common |-> << "markdown", common[k].genre, common[k].msPlayed >> ]
    /\ pc' = "histograms"
    /\ UNCHANGED << client_id, client_secret, file_uploader, catalog, tieOrder,
                    tokenCache, searchCache, access_token, header, data,
                    top_songs, top_artists, idx, art, generos, error, messages,
                    requests, okRequests, tokenRequests, lastCall, rankings,
                    runs, failures, calls >>

\* lines 194-206
ShowHistograms ==
    /\ pc = "histograms"
    /\ rendered' = rendered \o << << "histogram", "playDate" >>,
                                  << "histogram", "playDate", "minPlayed" >> >>
    /\ pc' = "done"
    /\ UNCHANGED << client_id, client_secret, file_uploader, catalog, tieOrder,
                    tokenCache, searchCache, access_token, header, data,
                    top_songs, top_artists, idx, art, generos, error, messages,
                    requests, okRequests, tokenRequests, lastCall, rankings,
                    runs, failures, calls >>

\* an interaction makes Streamlit run the script again: the module's globals start
\* over (lines 85-87), the caches of st.cache_data stay
Rerun ==
    /\ pc \in { "done", "aborted" }
    /\ runs < MaxRuns
    /\ runs' = runs + 1
    /\ pc' = "credentials"
    /\ error' = "none"
    /\ access_token' = None
    /\ header' = << >>
    /\ data' = << >>
    /\ top_songs' = << >>
    /\ top_artists' = << >>
    /\ idx' = 0
    /\ art' = EmptyDict
    /\ generos' = << >>
    /\ messages' = << >>
    /\ rendered' = << >>
    /\ lastCall' = NoCall
    /\ rankings' = NoRankings
    /\ calls' = NoCalls
    /\ UNCHANGED << client_id, client_secret, file_uploader, catalog, tieOrder,
                    tokenCache, searchCache, requests, okRequests, tokenRequests,
                    failures >>

----------------------------------------------------------------------------
(* Inputs *)

Title(n) == << n, "Aa" >>

Record(day, minute, artist, track, ms) ==
    [ endTime |-> [ day |-> day, minute |-> minute ],
      artistName |-> artist, trackName |-> track, msPlayed |-> ms ]

NoUpload == [ uploaded |-> FALSE, records |-> << >> ]
Upload(records) == [ uploaded |-> TRUE, records |-> records ]

\* a history of n artists: each played track 1 for a minute; all but the last two
\* also played track 2 for half a minute; the first one played track 3 for a quarter
\* of a minute; the last one played track 1 again, for five minutes
History(n) ==
    [ i \in 1..n |-> Record(1, i, Title(i), 1, MsPerMin) ]
    \o [ i \in 1..Max(0, n - 2) |-> Record(2, i, Title(i), 2, MsPerMin \div 2) ]
    \o << Record(2, 0, Title(1), 3, MsPerMin \div 4),
          Record(3, 0, Title(n), 1, 5 * MsPerMin) >>

Histories == { History(n) : n \in 1..MaxArtists }

\* histories drawn freely: up to MaxRecords records over two end times, two artists,
\* one track, and msPlayed up to MaxMs
FreeRecords ==
    { Record(1, m, Title(a), 1, ms) :
        m \in 1..2, a \in 1..2, ms \in 0..MaxMs }

FreeHistories == UNION { [ 1..n -> FreeRecords ] : n \in 1..MaxRecords }

GenresOf(n) ==
    CASE n % 3 = 0 -> << "rock" >>
      [] n % 3 = 1 -> << "pop", "rock" >>
      [] OTHER     -> << "indie", "pop" >>

\* an item of artists.items
Item(name, id, images) ==
    [ name |-> name, id |-> id, images |-> images, genres |-> GenresOf(name[1]) ]

Image(n) == [ url |-> << "img", n >> ]

\* what the catalog holds for artist n: a full entry, one without pictures, one
\* without the images field, or only an artist whose name differs in case
Entry(n, kind) ==
    CASE kind = "full"    -> << Item(Title(n), n, << Image(n) >>) >>
      [] kind = "noimage" -> << Item(Title(n), n, << >>) >>
      [] kind = "nokey"   -> << [ name |-> Title(n), id |-> n, genres |-> GenresOf(n) ] >>
      [] OTHER            -> << Item(<< n, "aa" >>, n, << Image(n) >>) >>

OddArtists == 1..2

Catalogs ==
    { [ a \in { Title(n) : n \in 1..MaxArtists } |->
          Entry(a[1], IF a[1] = p THEN kind ELSE "full") ] :
        p \in OddArtists, kind \in { "full", "noimage", "nokey", "nomatch" } }

\* answers drawn freely: up to MaxItems items, in the server's order, named like
\* the query, like it up to case, or otherwise
FreeItems ==
    { Item(<< n, c >>, id, << Image(id) >>) : n \in 1..2, c \in Casings, id \in 1..2 }

FreeAnswers == UNION { [ 1..n -> FreeItems ] : n \in 0..MaxItems }

----------------------------------------------------------------------------
(* Specifications *)

\* the state in which a run of the script starts, for given widgets and servers
Start(id, secret, file, cat, tie) ==
    /\ client_id = id
    /\ client_secret = secret
    /\ file_uploader = file
    /\ catalog = cat
    /\ tieOrder = tie
    /\ tokenCache = << >>
    /\ searchCache = << >>
    /\ access_token = None
    /\ header = << >>
    /\ data = << >>
    /\ top_songs = << >>
    /\ top_artists = << >>
    /\ idx = 0
    /\ art = EmptyDict
    /\ generos = << >>
    /\ pc = "credentials"
    /\ error = "none"
    /\ messages = << >>
    /\ rendered = << >>
    /\ requests = << >>
    /\ okRequests = << >>
    /\ tokenRequests = 0
    /\ lastCall = NoCall
    /\ rankings = NoRankings
    /\ runs = 1
    /\ failures = 0
    /\ calls = NoCalls

\* the script on generated histories, with or without credentials and file
Init ==
    \E id \in { "", "id" }, secret \in { "", "secret" },
       file \in { NoUpload } \cup { Upload(h) : h \in Histories },
       cat \in Catalogs, tie \in { "stable", "reversed" } :
        Start(id, secret, file, cat, tie)

Next ==
    \/ CheckCredentials
    \/ GetAccessToken
    \/ CheckToken
    \/ CheckFile
    \/ LoadFile
    \/ ShowMetrics
    \/ ShowTopSongs
    \/ RankByCount
    \/ RenderByCount
    \/ RankByDuration
    \/ RenderByDuration
    \/ RankByDistinct
    \/ RenderByDistinct
    \/ StartGenres
    \/ CollectGenres
    \/ ShowGenres
    \/ ShowHistograms
    \/ Rerun

Spec == Init /\ [][Next]_vars

\* the script, with credentials, on histories drawn freely, up to the loading
InitLoad ==
    \E h \in FreeHistories :
        Start("id", "secret", Upload(h),
              [ a \in { Title(n) : n \in 1..2 } |-> Entry(a[1], "full") ], "stable")

NextLoad ==
    \/ CheckCredentials
    \/ GetAccessToken
    \/ CheckToken
    \/ CheckFile
    \/ LoadFile

SpecLoad == InitLoad /\ [][NextLoad]_vars

\* the script, with credentials, on the history of one play of one artist, and a
\* catalog that answers the search for that artist with items drawn freely
InitSearch ==
    \E name \in { << 1, c >> : c \in Casings }, items \in FreeAnswers :
        Start("id", "secret", Upload(<< Record(1, 1, name, 1, MsPerMin) >>),
              (name :> items), "stable")

SpecSearch == InitSearch /\ [][Next]_vars

----------------------------------------------------------------------------
(* Properties of load_history_file, checked under SpecLoad *)

Input == file_uploader.records
Loaded == calls.load

SameKey(df, i, j) ==
    /\ df[i].endTime = df[j].endTime
    /\ df[i].artistName = df[j].artistName
    /\ df[i].trackName = df[j].trackName

\* the input's columns of the loaded rows
RawOf(df) ==
    [ i \in DOMAIN df |->
        [ endTime |-> df[i].endTime, artistName |-> df[i].artistName,
          trackName |-> df[i].trackName, msPlayed |-> df[i].msPlayed ] ]

\* the positions of the input's records that are in a duplicate group
InGroup(df) == { i \in DOMAIN df : \E j \in DOMAIN df : j # i /\ SameKey(df, i, j) }

\* the least msPlayed of each duplicate group
GroupMinima(df) ==
    { df[i].msPlayed : i \in { i \in InGroup(df) :
          \A j \in DOMAIN df : SameKey(df, i, j) => df[i].msPlayed <= df[j].msPlayed } }

\* the row index (from 0) of the first record of least msPlayed of each duplicate group
GroupMinLabels(df) ==
    { i - 1 : i \in { i \in InGroup(df) :
          \A j \in DOMAIN df : SameKey(df, i, j) =>
              df[i].msPlayed < df[j].msPlayed \/ (df[i].msPlayed = df[j].msPlayed /\ i <= j) } }

\* C1: the loaded collection holds no two records with the same
\* (endTime, artistName, trackName).
C1_NoDuplicateKeys ==
    Loaded => \A i, j \in DOMAIN data : i # j => ~SameKey(data, i, j)

\* C2: when exactly two records of the input share (endTime, artistName, trackName)
\* and their msPlayed differ, the loaded collection holds exactly one record with
\* that triple, the one of higher msPlayed.
C2_HigherSurvives ==
    Loaded =>
      \A i, j \in DOMAIN Input :
        ( /\ i < j
          /\ SameKey(Input, i, j)
          /\ Input[i].msPlayed # Input[j].msPlayed
          /\ \A k, l \in DOMAIN Input : (k < l /\ SameKey(Input, k, l)) => (k = i /\ l = j) )
        => LET rows == { r \in DOMAIN data :
                            /\ data[r].endTime = Input[i].endTime
                            /\ data[r].artistName = Input[i].artistName
                            /\ data[r].trackName = Input[i].trackName }
           IN  /\ Cardinality(rows) = 1
               /\ \A r \in rows : data[r].msPlayed = Max(Input[i].msPlayed, Input[j].msPlayed)

----------------------------------------------------------------------------
(* Properties of search_artist *)

SearchFailed == lastCall.status \in { "network_error", "error_body" }

\* C3 (SpecSearch): search_artist returns the first item, in the server's order,
\* whose name is exactly the name asked for, and {} when there is none; a cached
\* call returns the same.
C3_FirstExactMatch ==
    lastCall.status \in { "ok", "cached" } =>
      LET q == lastCall.name
          items == catalog[q]
      IN  IF \E k \in DOMAIN items : items[k].name = q
          THEN \E k \in DOMAIN items :
                  /\ items[k].name = q
                  /\ \A j \in 1..(k - 1) : items[j].name # q
                  /\ art = items[k]
          ELSE art = EmptyDict

\* the server answered with an item named like the query up to case, then two
\* different items with exactly the name, and the call returned the first of these
C3_Witness ==
    /\ lastCall.status = "ok"
    /\ LET q == lastCall.name
           items == catalog[q]
       IN  /\ Len(items) = 3
           /\ items[1].name # q /\ NameEqFold(items[1].name, q)
           /\ items[2].name = q /\ items[3].name = q
           /\ items[2] # items[3]
           /\ art = items[2]

\* C4, as claimed: when the search request fails, search_artist returns an empty
\* result and no error reaches its caller.
C4_FailureYieldsEmpty ==
    SearchFailed => lastCall.raised = "none" /\ art = EmptyDict /\ error = "none"

\* C4, amended: when the search request fails, search_artist returns nothing: the
\* error (ConnectionError, or KeyError on 'artists') reaches the script, which stops
\* there, and nothing is cached for the name.
C4_FailurePropagates ==
    SearchFailed =>
      /\ lastCall.raised =
            (IF lastCall.status = "network_error" THEN "ConnectionError" ELSE "KeyError:artists")
      /\ pc = "aborted"
      /\ error = lastCall.raised
      /\ lastCall.name \notin DOMAIN searchCache

\* a search request failed after part of the page was rendered
C4_Witness ==
    /\ lastCall.status = "error_body"
    /\ pc = "aborted"
    /\ idx > 0

\* C5, as claimed: at most one network request per artist name.
C5_OneRequestPerName ==
    \A n \in DOMAIN requests : requests[n] <= 1

\* C5, amended: at most one request per artist name gets an answer; once it has,
\* the name is in the cache and later calls issue no request.  A request that
\* fails caches nothing, so each failure allows one more request for the name.
C5_OneAnsweredRequestPerName ==
    \A n \in DOMAIN requests :
        /\ Count(okRequests, n) <= 1
        /\ (n \in DOMAIN searchCache) = (Count(okRequests, n) = 1)
        /\ requests[n] <= Count(okRequests, n) + failures

\* a name was requested twice, the second time with an answer, and the last call
\* was served from the cache
C5_Witness ==
    /\ lastCall.hit
    /\ requests[lastCall.name] = 2
    /\ okRequests[lastCall.name] = 1

----------------------------------------------------------------------------
(* Properties of the script, checked under Spec *)

Descending(rows) == \A k \in 1..(Len(rows) - 1) : rows[k].msPlayed >= rows[k + 1].msPlayed
Ascending(rows) == \A k \in 1..(Len(rows) - 1) : rows[k].msPlayed <= rows[k + 1].msPlayed

Plays(a) == Cardinality({ i \in DOMAIN data : data[i].artistName = a })
SongPlays(a, t) ==
    Cardinality({ i \in DOMAIN data : data[i].artistName = a /\ data[i].trackName = t })
Tracks(a) == Cardinality({ data[i].trackName : i \in { j \in DOMAIN data : data[j].artistName = a } })
Total(a) == SumMs(data, a, 1)

\* each row of the four rankings carries its ranking's own metric
OwnMetrics ==
    /\ \A k \in DOMAIN top_songs :
          top_songs[k].msPlayed = SongPlays(top_songs[k].artistName, top_songs[k].trackName)
    /\ \A k \in DOMAIN rankings.count :
          rankings.count[k].msPlayed = Plays(rankings.count[k].artistName)
    /\ \A k \in DOMAIN rankings.duration :
          rankings.duration[k].msPlayed = Total(rankings.duration[k].artistName)
    /\ \A k \in DOMAIN rankings.distinct :
          rankings.distinct[k].msPlayed = Tracks(rankings.distinct[k].artistName)

AtMostTopN ==
    /\ Len(top_songs) <= 10
    /\ Len(rankings.count) <= 10
    /\ Len(rankings.duration) <= 10
    /\ Len(rankings.distinct) <= 10

\* C6, as claimed: each of the four rankings has at most 10 entries, in descending
\* order of its own metric.
C6_AllDescending ==
    /\ OwnMetrics
    /\ AtMostTopN
    /\ Descending(top_songs)
    /\ Descending(rankings.count)
    /\ Descending(rankings.duration)
    /\ Descending(rankings.distinct)

\* C6, amended: each of the four rankings has at most 10 entries; the three artist
\* rankings are in descending order of their metric, the track ranking in ascending
\* order of its play count (the most played track last).
C6_SortedTopTen ==
    /\ OwnMetrics
    /\ AtMostTopN
    /\ Ascending(top_songs)
    /\ Descending(rankings.count)
    /\ Descending(rankings.duration)
    /\ Descending(rankings.distinct)

\* the page of a history of more than 10 artists and more than 10 tracks was
\* rendered; the rankings are full and their metrics are not all equal
C6_Witness ==
    /\ pc = "done"
    /\ Cardinality({ data[i].artistName : i \in DOMAIN data }) > 10
    /\ Len(top_songs) = 10 /\ top_songs[1].msPlayed < top_songs[10].msPlayed
    /\ Len(rankings.count) = 10 /\ rankings.count[1].msPlayed > rankings.count[10].msPlayed
    /\ Len(rankings.duration) = 10 /\ rankings.duration[1].msPlayed > rankings.duration[10].msPlayed
    /\ Len(rankings.distinct) = 10 /\ rankings.distinct[1].msPlayed > rankings.distinct[10].msPlayed

RECURSIVE GenresOver(_, _)
\* the genre lists of the artists of a ranking, one after the other
GenresOver(rows, k) ==
    IF k > Len(rows) THEN << >>
    ELSE searchCache[rows[k].artistName].genres \o GenresOver(rows, k + 1)

Occurrences(gs, g) == Cardinality({ i \in DOMAIN gs : gs[i] = g })

SameCounts(gs, hs) ==
    \A g \in { gs[i] : i \in DOMAIN gs } \cup { hs[i] : i \in DOMAIN hs } :
        Occurrences(gs, g) = Occurrences(hs, g)

GenresCounted == pc \in { "histograms", "done" }

\* C7, as claimed: the genres are counted over the genre lists of exactly the
\* artists of the top 10 by total duration.
C7_GenresOfDurationRanking ==
    GenresCounted => SameCounts(generos, GenresOver(rankings.duration, 1))

\* C7, amended: the genres are counted over the genre lists of exactly the artists
\* of the top 10 by number of distinct tracks, the ranking built last.
C7_GenresOfDistinctRanking ==
    GenresCounted => SameCounts(generos, GenresOver(rankings.distinct, 1))

\* the genres were counted in a run whose rankings by duration and by distinct
\* tracks hold different artists
C7_Witness ==
    /\ GenresCounted
    /\ generos # << >>
    /\ { rankings.duration[k].artistName : k \in DOMAIN rankings.duration }
         # { rankings.distinct[k].artistName : k \in DOMAIN rankings.distinct }

BothCredentials == client_id # "" /\ client_secret # ""

NothingProcessed ==
    /\ ~calls.load /\ ~calls.search
    /\ data = << >> /\ rendered = << >>

\* C8: load_history_file and search_artist run only with both credentials, a token
\* and a file; the token is requested only with both credentials; otherwise exactly
\* one message is shown (info without a credential, warning without a token, info
\* without a file) and nothing else is processed.
C8_Gating ==
    /\ (calls.load \/ calls.search) =>
          BothCredentials /\ access_token \notin { None, "" } /\ file_uploader.uploaded
    /\ calls.token => BothCredentials
    /\ (pc = "done" /\ ~BothCredentials) =>
          /\ messages = << << "info", "Introduce tus credenciales" >> >>
          /\ NothingProcessed /\ ~calls.token
    /\ (pc = "done" /\ BothCredentials /\ access_token \in { None, "" }) =>
          /\ messages = << << "warning", "Credenciales incorrectas." >> >>
          /\ NothingProcessed
    /\ (pc = "done" /\ BothCredentials /\ access_token \notin { None, "" }
                    /\ ~file_uploader.uploaded) =>
          /\ messages = << << "info", "Sube el fichero de historial." >> >>
          /\ NothingProcessed
    /\ (pc = "done" /\ BothCredentials /\ access_token \notin { None, "" }
                    /\ file_uploader.uploaded) =>
          messages = << >> /\ calls.load

\* a run with one credential missing has ended with its message
C8_Witness ==
    /\ pc = "done"
    /\ client_id # "" /\ client_secret = ""
    /\ messages = << << "info", "Introduce tus credenciales" >> >>

\* C9: when the metadata search_artist returned lacks an image or the name, the
\* rendering is not aborted.
C9_MissingFieldNotFatal ==
    ( /\ lastCall.status \in { "ok", "cached" }
      /\ (~HasImage(art) \/ "name" \notin DOMAIN art) )
    => pc # "aborted"

=============================================================================
